---- MODULE Spec2Model ----
(***************************************************************************)
(* Model of the e-books-supply client scripts:                             *)
(*   - the page script (DOMContentLoaded handler) in its two versions,     *)
(*     books_app/static/js/main.js (emoji indicator) and the icon version  *)
(*     (sun/moon icon indicator): mobile navigation toggle + theme toggle; *)
(*   - the service worker static/sw.js (install + pass-through fetch).     *)
(***************************************************************************)
EXTENDS Integers, Sequences, FiniteSets, TLC

\* ---------------------------------------------------------------- bounds
MaxLinks == 2        \* at most this many <a> elements inside .main-nav
MaxEvents == 2       \* at most this many fetch events per worker lifetime
MaxInstalls == 2     \* at most this many install events (registration/updates)

\* ---------------------------------------------------------------- values
null == "<null>"     \* JavaScript null: attribute / storage key / element absent
unset == "<markup>"  \* a property the script has not written yet (markup/CSS default)

Variants == {"emoji", "icons"}
\* what localStorage may hold under key 'theme' when a page loads
StoredValues == {null, "", "light", "dark", "blue"}

VARIABLES
    \* ---- the document as served (fixed for the life of the model)
    variant,        \* which version of the page script the page includes
    has,            \* which of the queried elements exist in the document
    numLinks,       \* number of <a> elements inside .main-nav
    markup,         \* is-open class / aria-expanded as written in the markup
    \* ---- the live page
    phase,          \* "parsed" (before DOMContentLoaded) or "loaded"
    loadError,      \* the DOMContentLoaded handler ended in an uncaught TypeError
    listeners,      \* click listeners registered so far
    isOpen,         \* mainNav.classList contains 'is-open'
    ariaExpanded,   \* toggleButton's aria-expanded attribute
    dataTheme,      \* body's data-theme attribute
    textContent,    \* themeToggle.textContent (emoji version)
    sunDisplay,     \* sunIcon.style.display (icon version)
    moonDisplay,    \* moonIcon.style.display (icon version)
    \* ---- the origin's storage
    storedTheme,    \* localStorage item 'theme'
    \* ---- history (observation only)
    h,
    \* ---- the service worker
    installs,       \* install events dispatched so far
    consoleLog,     \* messages written with console.log
    events,         \* fetch events, in dispatch order
    cacheReads,     \* cache lookups performed by the worker
    cacheStore,     \* requests the worker has put into a cache
    installFetches, \* network requests issued by the install listener
    \* ---- the browser around the page
    storageAccess,  \* "ok", or "denied": touching localStorage throws
    focus,          \* the tab (1 or 2) whose page the page variables hold
    other           \* the page of the other tab of the same origin

pageVars == <<variant, has, numLinks, markup, phase, loadError, listeners,
              isOpen, ariaExpanded, dataTheme, textContent, sunDisplay,
              moonDisplay, storedTheme, h>>
swVars == <<installs, consoleLog, events, cacheReads, cacheStore, installFetches>>
envVars == <<storageAccess, focus, other>>
vars == <<pageVars, swVars, envVars>>

\* ------------------------------------------------------- JavaScript helpers
\* a || b on strings and null: null and the empty string are falsy
Or(a, b) == IF a = null \/ a = "" THEN b ELSE a

\* setAttribute(name, value) stores String(value); for a boolean that is
\* the text "true" or "false"
BoolToString(b) == IF b THEN "true" ELSE "false"

\* ---------------------------------------------------------- the document
ElementNames == {"toggleButton", "mainNav", "themeToggle", "sunIcon", "moonIcon"}

\* The pair (class, attribute) written in the page template.  The menu state
\* is one boolean mirrored into the attribute, so the template writes them
\* consistently: closed with aria-expanded absent or "false", or open with
\* aria-expanded "true".
ConsistentMarkup ==
    { [isOpen |-> FALSE, ariaExpanded |-> null],
      [isOpen |-> FALSE, ariaExpanded |-> "false"],
      [isOpen |-> TRUE,  ariaExpanded |-> "true"] }

\* class / attribute of an element that is present, as served; an absent
\* element has neither
MarkupOpen == IF has.mainNav THEN markup.isOpen ELSE FALSE
MarkupAria == IF has.toggleButton THEN markup.ariaExpanded ELSE null

\* the indicator as the user sees it
Indicator == [text |-> textContent, sun |-> sunDisplay, moon |-> moonDisplay]

\* observable page state, recorded before each operation
Snap == [isOpen |-> isOpen, aria |-> ariaExpanded, theme |-> dataTheme,
         stored |-> storedTheme, ind |-> Indicator]

NoSnap == [isOpen |-> FALSE, aria |-> null, theme |-> null,
           stored |-> null, ind |-> [text |-> unset, sun |-> unset, moon |-> unset]]

\* history after operation op
Record(op) ==
    [op |-> op, pre |-> Snap, prevOp |-> h.op, pre2 |-> h.pre,
     writer |-> IF op = "theme" THEN focus ELSE h.writer,
     clicked |-> IF op = "theme" THEN TRUE
                 ELSE IF op = "reload" THEN FALSE ELSE h.clicked,
     unloadTheme |-> IF op = "reload" THEN dataTheme ELSE h.unloadTheme,
     unloadClicked |-> IF op = "reload" THEN h.clicked ELSE h.unloadClicked]

\* ------------------------------------------------------------ menu toggle
\* classList.add('is-open') in place of toggle
ToggleClassAdd(open) == TRUE

\* toggleButton click listener, classList.toggle('is-open')
ToggleClass(open) == ~open

\* the attribute set from isExpanded itself (negation dropped)
ToggleExpandedSame(attr) ==
    LET isExpanded == (attr = "true")
    IN  BoolToString(isExpanded)

\* toggleButton click listener: isExpanded is read from the attribute, and
\* the attribute is set to the text of !isExpanded
ToggleExpanded(attr) ==
    LET isExpanded == (attr = "true")
    IN  BoolToString(~isExpanded)

\* the link listener without its is-open test
LinkCloseAlways(open, attr) == [isOpen |-> FALSE, aria |-> "false"]

\* click listener of each link inside mainNav: closes the menu if it is open
LinkClose(open, attr) ==
    IF open
    THEN [isOpen |-> FALSE, aria |-> "false"]
    ELSE [isOpen |-> open, aria |-> attr]

\* ----------------------------------------------------------- theme toggle
\* the load ignoring the stored value
SavedThemeDefault(stored) == "light"

\* const savedTheme = localStorage.getItem('theme') || 'light'
SavedTheme(stored) == Or(stored, "light")

\* the click listener taking the current theme from storage, as the load does
CurrentThemeFromStorage(attr, stored) == Or(stored, "light")

\* let currentTheme = body.getAttribute('data-theme'): the click listener
\* reads the attribute of its own document; it has storage in scope too
CurrentTheme(attr, stored) == attr

\* the ternary testing for 'light' instead of 'dark'
NewThemeLightTest(currentTheme) == IF currentTheme = "light" THEN "dark" ELSE "light"

\* let newTheme = currentTheme === 'dark' ? 'light' : 'dark'
NewTheme(currentTheme) == IF currentTheme = "dark" THEN "light" ELSE "dark"

\* the click listener persisting the theme it read, not the one it applies
StoredOnClickOld(currentTheme) == currentTheme

\* the value the click listener passes to localStorage.setItem('theme', ...)
StoredOnClick(currentTheme) == NewTheme(currentTheme)

\* the emoji ternary with its branches exchanged
EmojiSwapped(theme) == IF theme = "dark" THEN "moon_emoji" ELSE "sun_emoji"

\* emoji version: text shown for a theme
Emoji(theme) == IF theme = "dark" THEN "sun_emoji" ELSE "moon_emoji"

\* emoji version, updateEmoji: writes the text only if the control exists
updateEmoji(theme) == IF has.themeToggle THEN Emoji(theme) ELSE textContent

\* icon version: display values for a theme
IconDisplay(theme) ==
    IF theme = "dark"
    THEN [sun |-> "none", moon |-> "inline"]
    ELSE [sun |-> "inline", moon |-> "none"]

\* icon version, updateIcons: assigns sunIcon.style.display, then
\* moonIcon.style.display; dereferencing an icon that was not found throws
\* a TypeError at that assignment, keeping the assignments already made
updateIcons(theme) ==
    IF ~has.sunIcon
    THEN [sun |-> sunDisplay, moon |-> moonDisplay, threw |-> TRUE]
    ELSE IF ~has.moonIcon
    THEN [sun |-> IconDisplay(theme).sun, moon |-> moonDisplay, threw |-> TRUE]
    ELSE [sun |-> IconDisplay(theme).sun, moon |-> IconDisplay(theme).moon,
          threw |-> FALSE]

\* the indicator update of either version: new indicator and whether it threw
UpdateIndicator(theme) ==
    IF variant = "emoji"
    THEN [text |-> updateEmoji(theme), sun |-> sunDisplay,
          moon |-> moonDisplay, threw |-> FALSE]
    ELSE [text |-> textContent, sun |-> updateIcons(theme).sun,
          moon |-> updateIcons(theme).moon, threw |-> updateIcons(theme).threw]

NoListeners == [toggleButton |-> FALSE, links |-> {}, themeToggle |-> FALSE]

\* localStorage.getItem('theme') with storage access denied by the browser:
\* the access throws, and the handler has no try/catch around it
StorageThrows(access) == access = "denied"

\* ----------------------------------------------------------- page actions
\* The DOMContentLoaded handler, whole: menu wiring, theme load and apply,
\* indicator initialisation, theme wiring.  An exception in the storage read
\* or in the indicator initialisation ends the handler there, before the
\* theme click listener is added.
DOMContentLoaded ==
    LET navOK == has.toggleButton /\ has.mainNav
        denied == StorageThrows(storageAccess)
        savedTheme == SavedTheme(storedTheme)
        ind == UpdateIndicator(savedTheme)
    IN  /\ phase = "parsed"
        /\ phase' = "loaded"
        /\ dataTheme' = IF denied THEN dataTheme ELSE savedTheme
        /\ textContent' = IF denied THEN textContent ELSE ind.text
        /\ sunDisplay' = IF denied THEN sunDisplay ELSE ind.sun
        /\ moonDisplay' = IF denied THEN moonDisplay ELSE ind.moon
        /\ loadError' = (denied \/ ind.threw)
        /\ listeners' =
             [toggleButton |-> navOK,
              links |-> IF navOK THEN 1..numLinks ELSE {},
              themeToggle |-> has.themeToggle /\ ~denied /\ ~ind.threw]
        /\ h' = Record("load")
        /\ UNCHANGED <<variant, has, numLinks, markup, isOpen, ariaExpanded,
                       storedTheme, swVars, envVars>>

\* click on the navigation toggle button
NavToggleClick ==
    /\ phase = "loaded"
    /\ listeners.toggleButton
    /\ isOpen' = ToggleClass(isOpen)
    /\ ariaExpanded' = ToggleExpanded(ariaExpanded)
    /\ h' = Record("navToggle")
    /\ UNCHANGED <<variant, has, numLinks, markup, phase, loadError, listeners,
                   dataTheme, textContent, sunDisplay, moonDisplay,
                   storedTheme, swVars, envVars>>

\* click on link k inside the navigation container
NavLinkClick(k) ==
    /\ phase = "loaded"
    /\ k \in listeners.links
    /\ isOpen' = LinkClose(isOpen, ariaExpanded).isOpen
    /\ ariaExpanded' = LinkClose(isOpen, ariaExpanded).aria
    /\ h' = Record("link")
    /\ UNCHANGED <<variant, has, numLinks, markup, phase, loadError, listeners,
                   dataTheme, textContent, sunDisplay, moonDisplay,
                   storedTheme, swVars, envVars>>

\* a theme click listener without the localStorage.setItem call
ThemeToggleClickNoSave ==
    LET currentTheme == CurrentTheme(dataTheme, storedTheme)
        newTheme == NewTheme(currentTheme)
        ind == UpdateIndicator(newTheme)
    IN  /\ phase = "loaded"
        /\ listeners.themeToggle
        /\ dataTheme' = newTheme
        /\ textContent' = ind.text
        /\ sunDisplay' = ind.sun
        /\ moonDisplay' = ind.moon
        /\ h' = Record("theme")
        /\ UNCHANGED <<variant, has, numLinks, markup, phase, loadError,
                       listeners, isOpen, ariaExpanded, storedTheme,
                       swVars, envVars>>

\* a theme click listener that also closes the menu
ThemeToggleClickClosesMenu ==
    LET currentTheme == CurrentTheme(dataTheme, storedTheme)
        newTheme == NewTheme(currentTheme)
        ind == UpdateIndicator(newTheme)
    IN  /\ phase = "loaded"
        /\ listeners.themeToggle
        /\ dataTheme' = newTheme
        /\ storedTheme' = StoredOnClick(currentTheme)
        /\ textContent' = ind.text
        /\ sunDisplay' = ind.sun
        /\ moonDisplay' = ind.moon
        /\ isOpen' = FALSE
        /\ h' = Record("theme")
        /\ UNCHANGED <<variant, has, numLinks, markup, phase, loadError,
                       listeners, ariaExpanded, swVars, envVars>>

\* click on the theme toggle control
ThemeToggleClick ==
    LET currentTheme == CurrentTheme(dataTheme, storedTheme)
        newTheme == NewTheme(currentTheme)
        ind == UpdateIndicator(newTheme)
    IN  /\ phase = "loaded"
        /\ listeners.themeToggle
        /\ dataTheme' = newTheme
        /\ storedTheme' = StoredOnClick(currentTheme)
        /\ textContent' = ind.text
        /\ sunDisplay' = ind.sun
        /\ moonDisplay' = ind.moon
        /\ h' = Record("theme")
        /\ UNCHANGED <<variant, has, numLinks, markup, phase, loadError,
                       listeners, isOpen, ariaExpanded, swVars, envVars>>

\* the user reloads the page: the document is parsed afresh from its markup
\* (all listeners and script-made DOM changes are gone); storage persists
Reload ==
    /\ phase = "loaded"
    /\ phase' = "parsed"
    /\ loadError' = FALSE
    /\ listeners' = NoListeners
    /\ isOpen' = MarkupOpen
    /\ ariaExpanded' = MarkupAria
    /\ dataTheme' = null
    /\ textContent' = unset
    /\ sunDisplay' = unset
    /\ moonDisplay' = unset
    /\ h' = Record("reload")
    /\ UNCHANGED <<variant, has, numLinks, markup, storedTheme, swVars, envVars>>

\* ------------------------------------------------------------------ tabs
\* the live page held in the page variables
ThisPage ==
    [phase |-> phase, loadError |-> loadError, listeners |-> listeners,
     isOpen |-> isOpen, ariaExpanded |-> ariaExpanded, dataTheme |-> dataTheme,
     textContent |-> textContent, sunDisplay |-> sunDisplay,
     moonDisplay |-> moonDisplay]

\* the document just parsed, before its script has run
FreshPage ==
    [phase |-> "parsed", loadError |-> FALSE, listeners |-> NoListeners,
     isOpen |-> MarkupOpen, ariaExpanded |-> MarkupAria, dataTheme |-> null,
     textContent |-> unset, sunDisplay |-> unset, moonDisplay |-> unset]

\* no second tab is open
ClosedTab == [FreshPage EXCEPT !.phase = "closed"]

\* The user turns to the other tab.  Each tab has its own document and its
\* own listeners; only localStorage is shared.  Events are dispatched one
\* at a time, so the events of two tabs interleave as whole listeners.
SwitchTab ==
    /\ other.phase # "closed"
    /\ focus' = 3 - focus
    /\ other' = ThisPage
    /\ phase' = other.phase
    /\ loadError' = other.loadError
    /\ listeners' = other.listeners
    /\ isOpen' = other.isOpen
    /\ ariaExpanded' = other.ariaExpanded
    /\ dataTheme' = other.dataTheme
    /\ textContent' = other.textContent
    /\ sunDisplay' = other.sunDisplay
    /\ moonDisplay' = other.moonDisplay
    /\ h' = [h EXCEPT !.op = "switch", !.prevOp = h.op]
    /\ UNCHANGED <<variant, has, numLinks, markup, storedTheme, storageAccess,
                   swVars>>


\* --------------------------------------------------------- service worker
Requests == {"/", "/static/css/style.css"}
NetworkError == "<network error>"
\* what the network can produce for one request
Outcomes == {"200 OK", "404 Not Found", NetworkError}

\* an install listener that also pre-fetches and caches the start page
InstallListenerPrecache ==
    [log |-> <<"Service Worker: Installed">>, fetched |-> <<"/">>,
     cachePut |-> {"/"}]

\* install listener: console.log('Service Worker: Installed')
InstallListener ==
    [log |-> <<"Service Worker: Installed">>, fetched |-> <<>>, cachePut |-> {}]

\* a listener that fetches the start page whatever was requested
FetchListenerRewrite(request) ==
    [fetched |-> <<"/">>, respondWith |-> 1, onReject |-> null,
     cacheMatch |-> FALSE, cachePut |-> {}]

\* a listener that answers a failed fetch with a substitute response
FetchListenerFallback(request) ==
    [fetched |-> <<request>>, respondWith |-> 1, onReject |-> "503 Offline",
     cacheMatch |-> FALSE, cachePut |-> {}]

\* fetch listener, event.respondWith(fetch(event.request)): the requests it
\* hands to fetch(), which of those promises it hands to respondWith, the
\* response a rejection handler would substitute (none), and its cache use
FetchListener(request) ==
    [fetched |-> <<request>>, respondWith |-> 1, onReject |-> null,
     cacheMatch |-> FALSE, cachePut |-> {}]

\* the install event is dispatched to the worker
Install ==
    /\ installs < MaxInstalls
    /\ installs' = installs + 1
    /\ consoleLog' = consoleLog \o InstallListener.log
    /\ cacheStore' = cacheStore \cup InstallListener.cachePut
    /\ installFetches' = installFetches \o InstallListener.fetched
    /\ UNCHANGED <<events, cacheReads, pageVars, envVars>>

\* the controlled page issues request req: the fetch event is dispatched and
\* the listener runs
FetchEvent(req) ==
    LET l == FetchListener(req)
    IN  /\ installs > 0
        /\ Len(events) < MaxEvents
        /\ events' = Append(events,
                        [request |-> req, fetched |-> l.fetched,
                         respondWith |-> l.respondWith, onReject |-> l.onReject,
                         state |-> "pending", answer |-> null, direct |-> null])
        /\ cacheReads' = cacheReads + (IF l.cacheMatch THEN 1 ELSE 0)
        /\ cacheStore' = cacheStore \cup l.cachePut
        /\ UNCHANGED <<installs, consoleLog, installFetches, pageVars, envVars>>

\* the network settles the requests of event i; net is what the network
\* answers for each request at that moment.  The promise handed to
\* respondWith settles the event; direct is what the page's own request
\* gets from the same network with no worker in between.
NetworkSettle(i, net) ==
    LET e == events[i]
        o == net[e.fetched[e.respondWith]]
    IN  /\ e.state = "pending"
        /\ events' = [events EXCEPT
                        ![i].state = "answered",
                        ![i].answer = IF o = NetworkError /\ e.onReject # null
                                      THEN e.onReject ELSE o,
                        ![i].direct = net[e.request]]
        /\ UNCHANGED <<installs, consoleLog, cacheReads, cacheStore,
                       installFetches, pageVars, envVars>>

\* ------------------------------------------------------------------ Init
InitSW ==
    /\ installs = 0
    /\ consoleLog = <<>>
    /\ events = <<>>
    /\ cacheReads = 0
    /\ cacheStore = {}
    /\ installFetches = <<>>

\* every markup the template could serve, consistent or not
AnyMarkup == [isOpen : BOOLEAN, ariaExpanded : {null, "true", "false"}]

InitDocument(markups) ==
    /\ variant \in Variants
    /\ has \in [ElementNames -> BOOLEAN]
    /\ (variant = "emoji") => (~has.sunIcon /\ ~has.moonIcon)
    /\ numLinks \in 0..MaxLinks
    /\ ~has.mainNav => numLinks = 0
    /\ markup \in markups
    /\ phase = "parsed"
    /\ loadError = FALSE
    /\ listeners = NoListeners
    /\ isOpen = MarkupOpen
    /\ ariaExpanded = MarkupAria
    /\ dataTheme = null
    /\ textContent = unset
    /\ sunDisplay = unset
    /\ moonDisplay = unset
    /\ storedTheme \in StoredValues
    /\ h = [op |-> "none", pre |-> NoSnap, prevOp |-> "none", pre2 |-> NoSnap,
            writer |-> 0,
            clicked |-> FALSE, unloadTheme |-> null, unloadClicked |-> FALSE]

InitPage == InitDocument(ConsistentMarkup)

\* one tab, storage accessible
InitEnv ==
    /\ storageAccess = "ok"
    /\ focus = 1
    /\ other = ClosedTab

Init == InitPage /\ InitSW /\ InitEnv

Next ==
    \/ DOMContentLoaded
    \/ NavToggleClick
    \/ \E k \in 1..MaxLinks : NavLinkClick(k)
    \/ ThemeToggleClick
    \/ Reload

Spec == Init /\ [][Next]_vars

\* the worker on its own, next to a document that has not run its script
InitNoPage ==
    /\ variant = "emoji"
    /\ has = [n \in ElementNames |-> FALSE]
    /\ numLinks = 0
    /\ markup = [isOpen |-> FALSE, ariaExpanded |-> null]
    /\ phase = "parsed"
    /\ loadError = FALSE
    /\ listeners = NoListeners
    /\ isOpen = FALSE
    /\ ariaExpanded = null
    /\ dataTheme = null
    /\ textContent = unset
    /\ sunDisplay = unset
    /\ moonDisplay = unset
    /\ storedTheme = null
    /\ h = [op |-> "none", pre |-> NoSnap, prevOp |-> "none", pre2 |-> NoSnap,
            writer |-> 0,
            clicked |-> FALSE, unloadTheme |-> null, unloadClicked |-> FALSE]

InitWorker == InitNoPage /\ InitSW /\ InitEnv

NextSW ==
    \/ Install
    \/ \E req \in Requests : FetchEvent(req)
    \/ \E i \in 1..MaxEvents, net \in [Requests -> Outcomes] :
           i <= Len(events) /\ NetworkSettle(i, net)

SpecSW == InitWorker /\ [][NextSW]_vars

\* the page in a browser that may deny access to localStorage
InitStorage ==
    /\ InitPage /\ InitSW
    /\ storageAccess \in {"ok", "denied"}
    /\ focus = 1
    /\ other = ClosedTab

SpecStorage == InitStorage /\ [][Next]_vars

\* the page served with any markup of the menu class and attribute
InitAnyMarkup == InitDocument(AnyMarkup) /\ InitSW /\ InitEnv

SpecAnyMarkup == InitAnyMarkup /\ [][Next]_vars

\* two tabs of the same origin showing the same document (menu served
\* closed, at most one link: the menu state of each tab is its own)
InitTabs ==
    /\ InitPage /\ InitSW
    /\ markup = [isOpen |-> FALSE, ariaExpanded |-> null]
    /\ numLinks <= 1
    /\ storageAccess = "ok"
    /\ focus = 1
    /\ other = FreshPage

NextTabs ==
    \/ Next
    \/ SwitchTab

SpecTabs == InitTabs /\ [][NextTabs]_vars

\* =================================================================== claims

\* C1: whenever the toggle button and the navigation container both exist,
\* at load and after any sequence of toggle and link clicks, the container
\* has class 'is-open' exactly when aria-expanded is "true".
NavLockstep ==
    (has.toggleButton /\ has.mainNav) => (isOpen <=> (ariaExpanded = "true"))

\* C1 witness: a toggle click right after a link click, menu open again
NavLockstepWitness ==
    /\ h.op = "navToggle" /\ h.prevOp = "link"
    /\ isOpen /\ ariaExpanded = "true"

\* C2: a link click with the menu open leaves it closed with aria-expanded
\* "false"; a link click with the menu closed changes neither.
LinkClickCloses ==
    h.op = "link" =>
        /\ ~isOpen
        /\ h.pre.isOpen => ariaExpanded = "false"
        /\ ~h.pre.isOpen => (isOpen = h.pre.isOpen /\ ariaExpanded = h.pre.aria)

\* C2 witness: a link was clicked while the menu was open
LinkClickClosesWitness ==
    /\ h.op = "link" /\ h.pre.isOpen /\ h.pre.aria = "true"
    /\ ~isOpen /\ ariaExpanded = "false"

\* C3: after one or more theme clicks and a reload, the data-theme applied
\* at load is the data-theme in effect just before the reload; a load with
\* nothing stored applies "light".
ThemeRoundTrip ==
    h.op = "load" =>
        /\ h.unloadClicked => dataTheme = h.unloadTheme
        /\ h.pre.stored = null => dataTheme = "light"

\* C3 witness: toggled to dark, reloaded, dark applied at load
ThemeRoundTripWitness ==
    /\ h.op = "load" /\ h.unloadClicked /\ h.unloadTheme = "dark"
    /\ dataTheme = "dark"

\* C4 (as stated): two consecutive theme clicks restore data-theme, the
\* stored value and the indicator to what they were before the first.
TwoClicksRestoreAll ==
    (h.op = "theme" /\ h.prevOp = "theme") =>
        /\ dataTheme = h.pre2.theme
        /\ storedTheme = h.pre2.stored
        /\ Indicator = h.pre2.ind

\* C4 (amended): two consecutive theme clicks restore the indicator; they
\* restore data-theme when it was "light" or "dark" (any other applied value
\* ends as "light"); the stored value ends equal to the resulting data-theme,
\* so it is restored when it was "light" or "dark" and equal to data-theme
\* before the first click.
TwoClicksRestoreTheme ==
    (h.op = "theme" /\ h.prevOp = "theme") =>
        /\ Indicator = h.pre2.ind
        /\ dataTheme = (IF h.pre2.theme = "dark" THEN "dark" ELSE "light")
        /\ storedTheme = dataTheme
        /\ (h.pre2.theme \in {"light", "dark"}) => dataTheme = h.pre2.theme
        /\ (h.pre2.theme \in {"light", "dark"} /\ h.pre2.stored = h.pre2.theme)
               => storedTheme = h.pre2.stored

\* C4 witness: two clicks right after a load that found nothing stored
TwoClicksRestoreThemeWitness ==
    /\ h.op = "theme" /\ h.prevOp = "theme"
    /\ h.pre2.stored = null /\ h.pre2.theme = "light"
    /\ dataTheme = "light" /\ storedTheme = "light"

\* C5: a theme click turns dark into light and light into dark and stores
\* the new value; from the first click of a page on, the stored value equals
\* data-theme.
ThemeClickFlips ==
    /\ h.op = "theme" =>
          /\ h.pre.theme = "dark" => dataTheme = "light"
          /\ h.pre.theme = "light" => dataTheme = "dark"
          /\ storedTheme = dataTheme
    /\ h.clicked => storedTheme = dataTheme

\* C5 witness: a click took the page from light to dark
ThemeClickFlipsWitness ==
    /\ h.op = "theme" /\ h.pre.theme = "light" /\ h.pre.stored = null
    /\ dataTheme = "dark" /\ storedTheme = "dark"

\* C6: once the page is loaded, an existing indicator shows the applied
\* theme: emoji version, the control's text is the sun for dark and the moon
\* otherwise; icon version (both icons exist), moon shown and sun hidden for
\* dark and the reverse otherwise.
IndicatorReflectsTheme ==
    phase = "loaded" =>
        /\ (variant = "emoji" /\ has.themeToggle) =>
              textContent = (IF dataTheme = "dark" THEN "sun_emoji" ELSE "moon_emoji")
        /\ (variant = "icons" /\ has.sunIcon /\ has.moonIcon) =>
              IF dataTheme = "dark"
              THEN sunDisplay = "none" /\ moonDisplay = "inline"
              ELSE sunDisplay = "inline" /\ moonDisplay = "none"

\* C6 witness: emoji version, dark right after a load, before any click
IndicatorReflectsThemeWitness ==
    /\ variant = "emoji" /\ has.themeToggle
    /\ h.op = "load" /\ dataTheme = "dark" /\ textContent = "sun_emoji"

\* C7: once the page is loaded, the applied data-theme is "light" or "dark",
\* whatever value (empty and unrecognised strings included) storage held at
\* load.  (The load never rewrites storage either, so the stored value stays
\* whatever it was until the first click.)
ThemeIsTwoState ==
    phase = "loaded" => dataTheme \in {"light", "dark"}

\* C10: whatever elements are missing, the DOMContentLoaded handler ends
\* without an error, and each behaviour is wired exactly when its elements
\* exist.
LoadNeverFails ==
    phase = "loaded" =>
        /\ ~loadError
        /\ listeners.toggleButton = (has.toggleButton /\ has.mainNav)
        /\ listeners.themeToggle = has.themeToggle

\* C8: every fetch event hands the event's own request to the network and is
\* answered with what the network gave for it, which is what the page would
\* get with no worker; no cache is read or written.
PassThrough ==
    /\ cacheReads = 0
    /\ cacheStore = {}
    /\ \A i \in 1..Len(events) :
          /\ events[i].fetched[events[i].respondWith] = events[i].request
          /\ events[i].state = "answered" => events[i].answer = events[i].direct

\* C8 witness: two answered events for different requests, answered differently
PassThroughWitness ==
    /\ Len(events) = 2
    /\ events[1].state = "answered" /\ events[2].state = "answered"
    /\ events[1].request # events[2].request
    /\ events[1].answer = "200 OK" /\ events[2].answer = "404 Not Found"

\* C9: an event whose network request failed is answered with the failure,
\* and every event issues exactly one network request.
FailurePropagates ==
    \A i \in 1..Len(events) :
        /\ Len(events[i].fetched) = 1
        /\ (events[i].state = "answered" /\ events[i].direct = NetworkError)
              => events[i].answer = NetworkError

\* C9 witness: an event answered with the network's failure
FailurePropagatesWitness ==
    \E i \in 1..Len(events) :
        /\ events[i].state = "answered"
        /\ events[i].direct = NetworkError
        /\ events[i].answer = NetworkError

\* C11: with the theme toggle control absent, the load still applies the
\* stored theme ("light" when nothing is stored), no theme click ever acts in
\* that page, and the load raises no error, in the emoji and the icon version.
ToggleAbsentStillApplies ==
    (phase = "loaded" /\ ~has.themeToggle) =>
        /\ dataTheme = (IF storedTheme \in {null, ""} THEN "light" ELSE storedTheme)
        /\ ~listeners.themeToggle
        /\ h.writer = 0
        /\ ~loadError

\* C12: with the navigation toggle button or the navigation container absent,
\* no menu listener exists and the class and attribute stay as served; the
\* load raises no error, and the theme is applied and its click listener
\* wired when the theme toggle exists.
NavAbsentDisabled ==
    (phase = "loaded" /\ ~(has.toggleButton /\ has.mainNav)) =>
        /\ ~listeners.toggleButton
        /\ listeners.links = {}
        /\ isOpen = MarkupOpen
        /\ ariaExpanded = MarkupAria
        /\ ~loadError
        /\ dataTheme # null
        /\ listeners.themeToggle = has.themeToggle

\* C13: when localStorage cannot be accessed at load, the page behaves as
\* with nothing stored: data-theme "light", light indicator, the handler
\* completes and the theme click listener is wired.
StorageFailureFallsBack ==
    (phase = "loaded" /\ storageAccess = "denied") =>
        /\ dataTheme = "light"
        /\ ~loadError
        /\ listeners.themeToggle = has.themeToggle
        /\ (variant = "emoji" /\ has.themeToggle) => textContent = "moon_emoji"
        /\ (variant = "icons" /\ has.sunIcon /\ has.moonIcon) =>
              (sunDisplay = "inline" /\ moonDisplay = "none")

\* C14: a click on the navigation toggle or on a navigation link leaves
\* data-theme, the stored theme and the indicator as they were; a click on
\* the theme toggle leaves the is-open class and aria-expanded as they were.
MenuAndThemeIndependent ==
    /\ h.op \in {"navToggle", "link"} =>
          /\ dataTheme = h.pre.theme
          /\ storedTheme = h.pre.stored
          /\ Indicator = h.pre.ind
    /\ h.op = "theme" =>
          /\ isOpen = h.pre.isOpen
          /\ ariaExpanded = h.pre.aria

\* C14 witness: a theme click made with the menu open, right after the
\* toggle click that opened it under the dark theme
MenuAndThemeIndependentWitness ==
    /\ h.op = "theme" /\ h.prevOp = "navToggle"
    /\ h.pre.isOpen /\ isOpen /\ ariaExpanded = "true"
    /\ h.pre.theme = "dark" /\ h.pre2.theme = "dark" /\ dataTheme = "light"

\* C15: only a theme click writes the stored theme: load (also with nothing
\* stored), reload and menu clicks leave it as it was; and a theme click
\* derives the new theme from the page's own data-theme, also when another
\* page has meanwhile stored a different value.
StorageWrittenOnlyByClick ==
    /\ h.op \in {"load", "reload", "navToggle", "link"} =>
          storedTheme = h.pre.stored
    /\ (h.op = "load" /\ h.pre.stored = null) => storedTheme = null
    /\ h.op = "theme" =>
          dataTheme = (IF h.pre.theme = "dark" THEN "light" ELSE "dark")

\* C15 witness: a click in a page showing light while storage, written by
\* the other page, holds dark: the page goes to dark
StorageWrittenOnlyByClickWitness ==
    /\ h.op = "theme"
    /\ h.pre.theme = "light" /\ h.pre.stored = "dark"
    /\ dataTheme = "dark" /\ storedTheme = "dark"

\* data-theme and phase of the page in tab t
ThemeOf(t) == IF t = focus THEN dataTheme ELSE other.dataTheme
PhaseOf(t) == IF t = focus THEN phase ELSE other.phase

\* C16: with two pages of the origin clicking in any order, the stored theme
\* is the data-theme of the page that clicked last (while that page is
\* loaded), and a theme click changes nothing in the other page.
LastWriterWins ==
    /\ [](( h.writer # 0 /\ PhaseOf(h.writer) = "loaded")
            => storedTheme = ThemeOf(h.writer))
    /\ [][h'.op = "theme" => other' = other]_vars

\* C16 witness: tab 2 clicked last and shows light, storage holds light,
\* tab 1 still shows the dark it set itself
LastWriterWinsWitness ==
    /\ h.op = "theme" /\ h.writer = 2 /\ focus = 2
    /\ dataTheme = "light" /\ storedTheme = "light"
    /\ other.phase = "loaded" /\ other.dataTheme = "dark"
    /\ other.listeners.themeToggle

\* class and attribute say the same thing
Agree(open, attr) == open <=> (attr = "true")

\* C17: a toggle click flips the class and, separately, the attribute (from
\* the attribute's own old value), so the two agree after the click exactly
\* when they agreed before it; a step that turns disagreement into agreement
\* is a link click made with the menu open.
TogglePreservesAgreement ==
    /\ h.op = "navToggle" =>
          /\ isOpen = ~h.pre.isOpen
          /\ ariaExpanded = (IF h.pre.aria = "true" THEN "false" ELSE "true")
          /\ Agree(isOpen, ariaExpanded) <=> Agree(h.pre.isOpen, h.pre.aria)
    /\ (h.op # "none" /\ ~Agree(h.pre.isOpen, h.pre.aria)
                      /\ Agree(isOpen, ariaExpanded))
          => (h.op = "link" /\ h.pre.isOpen)

\* C17 witness: served open with aria-expanded "false", a toggle click
\* leaves the menu closed with aria-expanded "true"
TogglePreservesAgreementWitness ==
    /\ h.op = "navToggle"
    /\ h.pre.isOpen /\ h.pre.aria = "false"
    /\ ~isOpen /\ ariaExpanded = "true"

\* C18: each install event writes one log message and nothing else: the
\* install listener issues no network request and fills no cache, and the
\* fetch events dispatched after it are answered with the network's answer.
InstallOnlyLogs ==
    /\ Len(consoleLog) = installs
    /\ \A k \in 1..Len(consoleLog) : consoleLog[k] = "Service Worker: Installed"
    /\ installFetches = <<>>
    /\ cacheStore = {}
    /\ \A i \in 1..Len(events) :
          events[i].state = "answered" => events[i].answer = events[i].direct

\* C18 witness: installed twice (an update), then a fetch event answered
InstallOnlyLogsWitness ==
    /\ installs = 2 /\ Len(consoleLog) = 2
    /\ Len(events) >= 1
    /\ events[1].state = "answered" /\ events[1].answer = "200 OK"

====
